---- MODULE Spec2Model ----
(***************************************************************************)
(* Model of bot.py, the 3x3 blindfold trainer: the handlers registered in  *)
(* main(), the conversation state kept by the ConversationHandler, and the *)
(* per-user dictionary ctx.user_data.                                      *)
(*                                                                         *)
(* A text is a sequence of characters; a character is a one-element string *)
(* ("A", "7", " ") or, for the characters outside ASCII, its name:         *)
(* "BRAIN", "STOP" and "STATS" are the three keyboard emoji and "SHARP_S"  *)
(* is the German sharp s, whose upper case is the two letters "SS".        *)
(***************************************************************************)
EXTENDS Integers, Sequences, FiniteSets, TLC

\* ------------------------------------------------------------------ config
CORNER_LETTERS == <<"A", "B", "C", "D", "E", "F", "G", "H">>
EDGE_LETTERS == <<"I", "J", "K", "L", "M", "N", "O", "P", "Q", "R", "S", "T">>
\* DUP_CHANCE = 0.15 and random.random(), both in hundredths
DUP_CHANCE == 15

SHOW_MEMO == 0
WAIT_MATH == 1
WAIT_RECALL_EDGES == 2
WAIT_RECALL_CORNERS == 3
\* ConversationHandler.END: the conversation has no state, entry points apply
END == -1

\* ------------------------------------------------------------------ bounds
\* rounds a session may begin under Spec (level <= MaxLevel at go_handler)
MaxLevel == 2
\* rounds a session may begin under SpecDeep
DeepLevel == 8
\* rounds a user may begin under SpecChats
ChatsLevel == 1
\* rounds a session may begin under SpecLossy
LossyLevel == 1
\* calls of format_feedback in one round under SpecLossy
LossyCalls == 2
\* rounds a session may begin under SpecScore
ScoreLevel == 1
\* leading letters of a recall that a user of SpecScore may get wrong
ScoreWidth == 2
\* longest sequence asked of the generator under SpecGen
GenMaxLen == 4
\* letters of the alphabets handed to the generator under SpecGen
GenMaxLetters == 4
\* letters random.choice draws from under Spec and SpecDeep (a prefix of the
\* alphabet): three letters are the fewest with which every length is generated
CornerDraws == {"A", "B", "C"}
EdgeDraws == {"I", "J", "K"}
\* values random.random() takes, in hundredths: both sides of DUP_CHANCE
RandomDraws == {0, 15, 16, 99}
\* values rint(1000, 9999) takes in letsgo_cb
MathDraws == {1000, 9999}

\* ------------------------------------------------------------------ text
Range(s) == {s[i] : i \in 1..Len(s)}

UpperCase == CORNER_LETTERS \o EDGE_LETTERS
LowerCase == <<"a", "b", "c", "d", "e", "f", "g", "h", "i", "j",
               "k", "l", "m", "n", "o", "p", "q", "r", "s", "t">>
DigitChars == <<"0", "1", "2", "3", "4", "5", "6", "7", "8", "9">>

IndexOf(s, c) == CHOOSE i \in 1..Len(s) : s[i] = c

\* str.upper() of one character: a sequence, since "SHARP_S" grows to "SS"
upper_char(c) ==
    IF c \in Range(LowerCase) THEN <<UpperCase[IndexOf(LowerCase, c)]>>
    ELSE IF c = "SHARP_S" THEN <<"S", "S">>
    ELSE <<c>>

\* str.lower() of one character
lower_char(c) ==
    IF c \in Range(UpperCase) THEN <<LowerCase[IndexOf(UpperCase, c)]>>
    ELSE <<c>>

RECURSIVE upper(_)
upper(s) == IF s = <<>> THEN <<>> ELSE upper_char(Head(s)) \o upper(Tail(s))

RECURSIVE lower(_)
lower(s) == IF s = <<>> THEN <<>> ELSE lower_char(Head(s)) \o lower(Tail(s))

RECURSIVE lstrip(_)
lstrip(s) == IF s # <<>> /\ Head(s) = " " THEN lstrip(Tail(s)) ELSE s

RECURSIVE rstrip(_)
rstrip(s) ==
    IF s # <<>> /\ s[Len(s)] = " " THEN rstrip(SubSeq(s, 1, Len(s) - 1)) ELSE s

\* str.strip()
strip(s) == rstrip(lstrip(s))

\* int(text): the literal is an optional sign, then digits that single
\* underscores may separate; anything else raises ValueError
IntBody(s) ==
    LET t == strip(s)
    IN IF t # <<>> /\ t[1] \in {"+", "-"} THEN Tail(t) ELSE t

IsIntLiteral(s) ==
    LET b == IntBody(s)
    IN /\ b # <<>>
       /\ \A i \in 1..Len(b) : b[i] \in Range(DigitChars) \cup {"_"}
       /\ b[1] # "_"
       /\ b[Len(b)] # "_"
       /\ \A i \in 1..(Len(b) - 1) : ~(b[i] = "_" /\ b[i + 1] = "_")

RECURSIVE DigitsValue(_, _)
DigitsValue(b, acc) ==
    IF b = <<>> THEN acc
    ELSE IF Head(b) = "_" THEN DigitsValue(Tail(b), acc)
    ELSE DigitsValue(Tail(b), 10 * acc + (IndexOf(DigitChars, Head(b)) - 1))

int_negated(s) ==
    LET t == strip(s)
        v == DigitsValue(IntBody(s), 0)
    IN IF t[1] = "-" THEN v ELSE 0 - v

int(s) ==
    LET t == strip(s)
        v == DigitsValue(IntBody(s), 0)
    IN IF t[1] = "-" THEN 0 - v ELSE v

\* ------------------------------------------------------------------ helpers
\* rint(a, b) = random.randint(a, b): the set of values it can return
rint(a, b) == a..b

next_len_flipped(n, maxn, minrnd) ==
    IF n > maxn THEN {n + 1} ELSE rint(minrnd, maxn)

\* next_len: the set of values the call can return
next_len(n, maxn, minrnd) ==
    IF n < maxn THEN {n + 1} ELSE rint(minrnd, maxn)

accepts_no_duplicate(memo, L, r) ==
    /\ ~(memo # <<>> /\ (L = memo[1] \/ L = memo[Len(memo)]))
    /\ ~(L \in Range(memo))

accepts_no_wrap(memo, L, r) ==
    /\ ~(memo # <<>> /\ L = memo[Len(memo)])
    /\ ~(L \in Range(memo) /\ r > DUP_CHANCE)

\* one pass of the loop body of gen_memo_set on the draws L and r: TRUE when
\* L is appended, FALSE when either `continue` is taken
accepts(memo, L, r) ==
    /\ ~(memo # <<>> /\ (L = memo[1] \/ L = memo[Len(memo)]))
    /\ ~(L \in Range(memo) /\ r > DUP_CHANCE)

\* gen_memo_set: the set of lists the loop can return when random.choice
\* draws from `draws`; a rejected draw repeats the pass on the same memo
RECURSIVE gen_from(_, _, _)
gen_from(memo, length, draws) ==
    IF ~(Len(memo) < length) THEN {memo}
    ELSE UNION {gen_from(Append(memo, L), length, draws) :
                  L \in {x \in draws : \E r \in RandomDraws : accepts(memo, x, r)}}

gen_memo_set_short(letters, length, draws) ==
    gen_from(<<>>, length - 1, draws \cap Range(letters))

gen_memo_set(letters, length, draws) ==
    gen_from(<<>>, length, draws \cap Range(letters))

Min(a, b) == IF a < b THEN a ELSE b

Hits_of_prefix(correct, guess) ==
    Cardinality({i \in 1..Min(Len(correct), Len(guess)) :
                    \A j \in 1..i : correct[j] = guess[j]})

\* the loop of format_feedback: hits += 1 for every pair of zip(correct,
\* guess) that agrees; zip stops at the shorter list
RECURSIVE Hits(_, _)
Hits(correct, guess) ==
    IF correct = <<>> \/ guess = <<>> THEN 0
    ELSE (IF Head(correct) = Head(guess) THEN 1 ELSE 0)
             + Hits(Tail(correct), Tail(guess))

format_feedback(correct, guess) ==
    LET n == Min(Len(correct), Len(guess))
        hits == Hits(correct, guess)
    IN [fb |-> [correct |-> [i \in 1..n |->
                                IF correct[i] = guess[i]
                                THEN <<"code", lower_char(correct[i])>>
                                ELSE <<"bold", <<correct[i]>>>>],
                yours |-> [i \in 1..n |->
                              IF correct[i] = guess[i]
                              THEN <<"code", lower_char(guess[i])>>
                              ELSE <<"bold", upper_char(guess[i])>>],
                score |-> <<hits, Len(correct)>>],
        hits |-> hits]

\* ------------------------------------------------------------------ state
VARIABLES
    conv,       \* state of the conversation memo3x3_conv (END: none stored)
    user_data,  \* ctx.user_data, a dict: a function from its keys
    out,        \* the last message the bot sent (send_new or reply_text)
    raised,     \* the exception the last handler ended with, or "none"
    scored,     \* history: the calls of format_feedback since the last go_handler
    sumHits,    \* history: hits of every group scored since the last start
    sumLens,    \* history: lengths of every group scored since the last start
    gen,        \* the run of gen_memo_set that SpecGen follows
    parked      \* state of memo3x3_conv in the user's other chat (SpecChats)

vars == <<conv, user_data, out, raised, scored, sumHits, sumLens, gen, parked>>

Has(d, k) == k \in DOMAIN d
\* dict.get(k, default)
Get(d, k, default) == IF Has(d, k) THEN d[k] ELSE default
Update_keeps_old(d, new) == d @@ new

\* dict.update(**new)
Update(d, new) == new @@ d

\* ------------------------------------------------------------------ updates
Message(text) == [kind |-> "message", text |-> text]
CallbackQuery(data) == [kind |-> "callback_query", text |-> data]

BRAIN == <<"BRAIN">>
STOP == <<"STOP">>
STATS == <<"STATS">>
StartCommand == <<"/", "s", "t", "a", "r", "t">>
LetsGo == <<"letsgo">>

\* filters.COMMAND
is_command(u) == u.kind = "message" /\ u.text # <<>> /\ u.text[1] = "/"
\* filters.TEXT & ~filters.COMMAND
is_plain_text(u) == u.kind = "message" /\ ~is_command(u)

handler_for_reentry(u, state) ==
    IF u.kind = "message" /\ u.text = STOP THEN "exit_handler"
    ELSE IF u.kind = "message" /\ u.text = STATS THEN "stats_handler"
    ELSE IF u.kind = "message" /\ u.text = StartCommand THEN "start"
    ELSE IF u.kind = "message" /\ u.text = BRAIN THEN "go_handler"
    ELSE IF state = SHOW_MEMO THEN
        IF u.kind = "callback_query" /\ u.text = LetsGo THEN "letsgo_cb"
        ELSE "none"
    ELSE IF state = WAIT_MATH THEN
        IF is_plain_text(u) THEN "handle_math" ELSE "none"
    ELSE IF state = WAIT_RECALL_EDGES THEN
        IF is_plain_text(u) THEN "handle_edges" ELSE "none"
    ELSE IF state = WAIT_RECALL_CORNERS THEN
        IF is_plain_text(u) THEN "handle_corners" ELSE "none"
    ELSE "none"

\* The handler main() makes the application run for update u when the
\* conversation is in `state`: the global exit and stats handlers come first in
\* the group, then the conversation, whose entry points apply only when it has
\* no state; "none" when no handler takes the update.
handler_for(u, state) ==
    IF u.kind = "message" /\ u.text = STOP THEN "exit_handler"
    ELSE IF u.kind = "message" /\ u.text = STATS THEN "stats_handler"
    ELSE IF state = END THEN
        IF u.kind = "message" /\ u.text = StartCommand THEN "start"
        ELSE IF u.kind = "message" /\ u.text = BRAIN THEN "go_handler"
        ELSE "none"
    ELSE IF state = SHOW_MEMO THEN
        IF u.kind = "callback_query" /\ u.text = LetsGo THEN "letsgo_cb"
        ELSE "none"
    ELSE IF state = WAIT_MATH THEN
        IF is_plain_text(u) THEN "handle_math" ELSE "none"
    ELSE IF state = WAIT_RECALL_EDGES THEN
        IF is_plain_text(u) THEN "handle_edges" ELSE "none"
    ELSE IF state = WAIT_RECALL_CORNERS THEN
        IF is_plain_text(u) THEN "handle_corners" ELSE "none"
    ELSE "none"

\* send_new on the dict d: the id of the message sent replaces msg_id (the
\* ids are abstracted to one value; None is "None")
send_new(d) == Update(d, [msg_id |-> "message_id"])

recall_guess_unstripped(text) == upper(text)

\* the guess a recall handler scores: text.strip().upper()
recall_guess(text) == upper(strip(text))

full_solve_corners_only(hits, corners, d) == hits = Len(corners)

\* full solve = perfect edges + perfect corners
full_solve(hits, corners, d) ==
    /\ hits = Len(corners)
    /\ Get(d, "last_edge_hits", 0) = Len(d["edges"])

accuracy_divides_first(correct, attempted) == (correct \div attempted) * 100

\* acc = correct_letters * 100 // attempted_letters
accuracy(correct, attempted) == (correct * 100) \div attempted

\* ------------------------------------------------------------------ handlers
NoGen == [pc |-> "idle"]

\* the fields of the session the game is played with (msg_id is transport)
Game(d) == [k \in DOMAIN d \ {"msg_id"} |-> d[k]]

start_at_level_zero(u) ==
    /\ handler_for(u, conv) = "start"
    /\ user_data' = send_new(Update(user_data,
                        [level |-> 0, corner_len |-> 3, edge_len |-> 5,
                         msg_id |-> "None", correct_letters |-> 0,
                         attempted_letters |-> 0, puzzles_solved |-> 0]))
    /\ out' = [kind |-> "welcome"]
    /\ conv' = END
    /\ raised' = "none"
    /\ sumHits' = 0
    /\ sumLens' = 0
    /\ UNCHANGED <<scored, gen, parked>>

\* /start -> welcome screen
start(u) ==
    /\ handler_for(u, conv) = "start"
    /\ user_data' = send_new(Update(user_data,
                        [level |-> 1, corner_len |-> 3, edge_len |-> 5,
                         msg_id |-> "None", correct_letters |-> 0,
                         attempted_letters |-> 0, puzzles_solved |-> 0]))
    /\ out' = [kind |-> "welcome"]
    /\ conv' = END
    /\ raised' = "none"
    /\ sumHits' = 0
    /\ sumLens' = 0
    /\ UNCHANGED <<scored, gen, parked>>

\* BRAIN -> show edges & corners with the "Let's go" button; the lookups of
\* corner_len and edge_len raise KeyError on a dict that start never filled,
\* and the conversation keeps its state when a handler raises
go_handler(u, e) ==
    /\ handler_for(u, conv) = "go_handler"
    /\ Get(user_data, "level", 1) <= e.maxLevel
    /\ IF ~Has(user_data, "corner_len") \/ ~Has(user_data, "edge_len")
       THEN /\ raised' = "KeyError"
            /\ UNCHANGED <<conv, user_data, out, scored, sumHits, sumLens, gen, parked>>
       ELSE LET cl == user_data["corner_len"]
                el == user_data["edge_len"]
            IN \E corners \in gen_memo_set(CORNER_LETTERS, cl, e.cornerDraws),
                  edges \in gen_memo_set(EDGE_LETTERS, el, e.edgeDraws) :
                   /\ user_data' = send_new(Update(user_data,
                                       [corners |-> corners, edges |-> edges]))
                   /\ out' = [kind |-> "memo", level |-> user_data["level"],
                              edges |-> edges, corners |-> corners,
                              button |-> LetsGo]
                   /\ conv' = SHOW_MEMO
                   /\ raised' = "none"
                   /\ scored' = <<>>
                   /\ UNCHANGED <<sumHits, sumLens, gen, parked>>

\* inline "Let's go" -> distraction math
letsgo_cb(u, e) ==
    /\ handler_for(u, conv) = "letsgo_cb"
    /\ \E a \in {n \in e.mathDraws : n \in rint(1000, 9999)},
          b \in {n \in e.mathDraws : n \in rint(1000, 9999)} :
           /\ user_data' = send_new(Update(user_data, [math_ans |-> a + b]))
           /\ out' = [kind |-> "math", a |-> a, b |-> b]
    /\ conv' = WAIT_MATH
    /\ raised' = "none"
    /\ UNCHANGED <<scored, sumHits, sumLens, gen, parked>>

\* math answer -> verdict + prompt for edges
handle_math(u) ==
    /\ handler_for(u, conv) = "handle_math"
    /\ raised' = "none"
    /\ IF ~IsIntLiteral(strip(u.text))
       THEN /\ out' = [kind |-> "reply", text |-> "Send a valid number."]
            /\ conv' = WAIT_MATH
            /\ UNCHANGED <<user_data, scored, sumHits, sumLens, gen, parked>>
       ELSE LET val == int(strip(u.text))
                ok == val = user_data["math_ans"]
            IN /\ out' = [kind |-> "verdict", ok |-> ok,
                          was |-> user_data["math_ans"], prompt |-> "edges"]
               /\ user_data' = send_new(user_data)
               /\ conv' = WAIT_RECALL_EDGES
               /\ UNCHANGED <<scored, sumHits, sumLens, gen, parked>>

\* edges recall -> feedback + prompt corners
handle_edges(u) ==
    /\ handler_for(u, conv) = "handle_edges"
    /\ raised' = "none"
    /\ LET edges == user_data["edges"]
           guess == recall_guess(u.text)
       IN IF Len(guess) # Len(edges)
          THEN /\ out' = [kind |-> "reply", need |-> Len(edges), group |-> "edges"]
               /\ conv' = WAIT_RECALL_EDGES
               /\ UNCHANGED <<user_data, scored, sumHits, sumLens, gen, parked>>
          ELSE LET r == format_feedback(edges, guess)
               IN /\ user_data' = send_new(Update(user_data,
                         [correct_letters |-> user_data["correct_letters"] + r.hits,
                          attempted_letters |->
                              user_data["attempted_letters"] + Len(edges),
                          last_edge_hits |-> r.hits]))
                  /\ out' = [kind |-> "feedback", fb |-> r.fb, prompt |-> "corners"]
                  /\ conv' = WAIT_RECALL_CORNERS
                  /\ scored' = Append(scored, [group |-> "edges", hits |-> r.hits,
                                               length |-> Len(edges),
                                               correct |-> edges, guess |-> guess])
                  /\ sumHits' = sumHits + r.hits
                  /\ sumLens' = sumLens + Len(edges)
                  /\ UNCHANGED <<gen, parked>>

\* corners recall -> final feedback + stats + back to main
handle_corners(u) ==
    /\ handler_for(u, conv) = "handle_corners"
    /\ raised' = "none"
    /\ LET corners == user_data["corners"]
           guess == recall_guess(u.text)
       IN IF Len(guess) # Len(corners)
          THEN /\ out' = [kind |-> "reply", need |-> Len(corners),
                          group |-> "corners"]
               /\ conv' = WAIT_RECALL_CORNERS
               /\ UNCHANGED <<user_data, scored, sumHits, sumLens, gen, parked>>
          ELSE LET r == format_feedback(corners, guess)
                   correct == user_data["correct_letters"] + r.hits
                   attempted == user_data["attempted_letters"] + Len(corners)
                   solved == IF full_solve(r.hits, corners, user_data)
                             THEN user_data["puzzles_solved"] + 1
                             ELSE user_data["puzzles_solved"]
                   acc == accuracy(correct, attempted)
               IN /\ \E ncl \in next_len(user_data["corner_len"],
                                         Len(CORNER_LETTERS), 3),
                        nel \in next_len(user_data["edge_len"],
                                         Len(EDGE_LETTERS), 5) :
                         user_data' = Update(send_new(user_data),
                             [correct_letters |-> correct,
                              attempted_letters |-> attempted,
                              puzzles_solved |-> solved,
                              level |-> user_data["level"] + 1,
                              corner_len |-> ncl,
                              edge_len |-> nel])
                  /\ out' = [kind |-> "final", fb |-> r.fb, acc |-> acc,
                             solved |-> solved]
                  /\ conv' = END
                  /\ scored' = Append(scored, [group |-> "corners", hits |-> r.hits,
                                               length |-> Len(corners),
                                               correct |-> corners, guess |-> guess])
                  /\ sumHits' = sumHits + r.hits
                  /\ sumLens' = sumLens + Len(corners)
                  /\ UNCHANGED <<gen, parked>>

exit_handler_resets(u) ==
    /\ handler_for(u, conv) = "exit_handler"
    /\ user_data' = send_new(Update(user_data,
                        [correct_letters |-> 0, attempted_letters |-> 0,
                         puzzles_solved |-> 0]))
    /\ out' = [kind |-> "goodbye"]
    /\ raised' = "none"
    /\ UNCHANGED <<conv, scored, sumHits, sumLens, gen, parked>>

\* STOP -> always say goodbye.  The handler is registered on the application,
\* not in the conversation, so the END it returns is dropped: the conversation
\* keeps its state.
exit_handler(u) ==
    /\ handler_for(u, conv) = "exit_handler"
    /\ user_data' = send_new(user_data)
    /\ out' = [kind |-> "goodbye"]
    /\ raised' = "none"
    /\ UNCHANGED <<conv, scored, sumHits, sumLens, gen, parked>>

stats_handler_ends(u) ==
    /\ handler_for(u, conv) = "stats_handler"
    /\ user_data' = send_new(user_data)
    /\ out' = [kind |-> "stats", solved |-> Get(user_data, "puzzles_solved", 0)]
    /\ raised' = "none"
    /\ conv' = END
    /\ UNCHANGED <<scored, sumHits, sumLens, gen, parked>>

\* STATS -> always show stats
stats_handler(u) ==
    /\ handler_for(u, conv) = "stats_handler"
    /\ user_data' = send_new(user_data)
    /\ out' = [kind |-> "stats", solved |-> Get(user_data, "puzzles_solved", 0)]
    /\ raised' = "none"
    /\ UNCHANGED <<conv, scored, sumHits, sumLens, gen, parked>>

\* ------------------------------------------------- handlers, message not sent
\* The handlers when bot.send_message (or reply_text) raises: what the handler
\* wrote to user_data before the call stays written, the statements after the
\* call are not run, msg_id is not replaced, and the conversation keeps its
\* state since the handler returned none.
start_undelivered(u) ==
    /\ handler_for(u, conv) = "start"
    /\ user_data' = Update(user_data,
                        [level |-> 1, corner_len |-> 3, edge_len |-> 5,
                         msg_id |-> "None", correct_letters |-> 0,
                         attempted_letters |-> 0, puzzles_solved |-> 0])
    /\ raised' = "NetworkError"
    /\ sumHits' = 0
    /\ sumLens' = 0
    /\ UNCHANGED <<conv, out, scored, gen, parked>>

go_handler_undelivered(u, e) ==
    /\ handler_for(u, conv) = "go_handler"
    /\ Get(user_data, "level", 1) <= e.maxLevel
    /\ Has(user_data, "corner_len") /\ Has(user_data, "edge_len")
    /\ \E corners \in gen_memo_set(CORNER_LETTERS, user_data["corner_len"],
                                   e.cornerDraws),
          edges \in gen_memo_set(EDGE_LETTERS, user_data["edge_len"],
                                 e.edgeDraws) :
           user_data' = Update(user_data, [corners |-> corners, edges |-> edges])
    /\ raised' = "NetworkError"
    /\ scored' = <<>>
    /\ UNCHANGED <<conv, out, sumHits, sumLens, gen, parked>>

\* callback_query.answer() raises, or send_message does after math_ans is set
letsgo_cb_undelivered(u, e) ==
    /\ handler_for(u, conv) = "letsgo_cb"
    /\ \/ user_data' = user_data
       \/ \E a \in {n \in e.mathDraws : n \in rint(1000, 9999)},
             b \in {n \in e.mathDraws : n \in rint(1000, 9999)} :
              user_data' = Update(user_data, [math_ans |-> a + b])
    /\ raised' = "NetworkError"
    /\ UNCHANGED <<conv, out, scored, sumHits, sumLens, gen, parked>>

handle_math_undelivered(u) ==
    /\ handler_for(u, conv) = "handle_math"
    /\ raised' = "NetworkError"
    /\ UNCHANGED <<conv, user_data, out, scored, sumHits, sumLens, gen, parked>>

handle_edges_undelivered(u) ==
    /\ handler_for(u, conv) = "handle_edges"
    /\ Len(scored) < LossyCalls
    /\ raised' = "NetworkError"
    /\ LET edges == user_data["edges"]
           guess == recall_guess(u.text)
       IN IF Len(guess) # Len(edges)
          THEN UNCHANGED <<user_data, scored, sumHits, sumLens>>
          ELSE LET r == format_feedback(edges, guess)
               IN /\ user_data' = Update(user_data,
                         [correct_letters |-> user_data["correct_letters"] + r.hits,
                          attempted_letters |->
                              user_data["attempted_letters"] + Len(edges),
                          last_edge_hits |-> r.hits])
                  /\ scored' = Append(scored, [group |-> "edges", hits |-> r.hits,
                                               length |-> Len(edges),
                                               correct |-> edges, guess |-> guess])
                  /\ sumHits' = sumHits + r.hits
                  /\ sumLens' = sumLens + Len(edges)
    /\ UNCHANGED <<conv, out, gen, parked>>

handle_corners_undelivered(u) ==
    /\ handler_for(u, conv) = "handle_corners"
    /\ Len(scored) < LossyCalls
    /\ raised' = "NetworkError"
    /\ LET corners == user_data["corners"]
           guess == recall_guess(u.text)
       IN IF Len(guess) # Len(corners)
          THEN UNCHANGED <<user_data, scored, sumHits, sumLens>>
          ELSE LET r == format_feedback(corners, guess)
               IN /\ user_data' = Update(user_data,
                         [correct_letters |-> user_data["correct_letters"] + r.hits,
                          attempted_letters |->
                              user_data["attempted_letters"] + Len(corners),
                          puzzles_solved |->
                              IF full_solve(r.hits, corners, user_data)
                              THEN user_data["puzzles_solved"] + 1
                              ELSE user_data["puzzles_solved"]])
                  /\ scored' = Append(scored, [group |-> "corners", hits |-> r.hits,
                                               length |-> Len(corners),
                                               correct |-> corners, guess |-> guess])
                  /\ sumHits' = sumHits + r.hits
                  /\ sumLens' = sumLens + Len(corners)
    /\ UNCHANGED <<conv, out, gen, parked>>

exit_handler_undelivered(u) ==
    /\ handler_for(u, conv) = "exit_handler"
    /\ raised' = "NetworkError"
    /\ UNCHANGED <<conv, user_data, out, scored, sumHits, sumLens, gen, parked>>

stats_handler_undelivered(u) ==
    /\ handler_for(u, conv) = "stats_handler"
    /\ raised' = "NetworkError"
    /\ UNCHANGED <<conv, user_data, out, scored, sumHits, sumLens, gen, parked>>

\* an update no handler takes is dropped
unhandled(u) ==
    /\ handler_for(u, conv) = "none"
    /\ UNCHANGED vars

\* ------------------------------------------------------------------ inputs
\* str(n) for n >= 0, as the user types a number
RECURSIVE Decimal(_)
Decimal(n) ==
    IF n < 10 THEN <<DigitChars[n + 1]>>
    ELSE Decimal(n \div 10) \o <<DigitChars[(n % 10) + 1]>>

\* answers a user sends to the distraction task: the sum with blanks around
\* it, a wrong number, the spec's "69b2", and a signed literal with an
\* underscore
MathTexts(d, wide) ==
    IF ~Has(d, "math_ans") THEN {}
    ELSE IF ~wide THEN {Decimal(d["math_ans"])}
    ELSE {<<" ">> \o Decimal(d["math_ans"]) \o <<" ">>,
          Decimal(d["math_ans"] + 1),
          <<"6", "9", "b", "2">>,
          <<"+", "2", "_", "0", "0", "0">>}

\* recalls a user sends for a target: the target in lower case with blanks
\* around it, one letter short (alone and behind a blank), one letter long, a
\* text one letter short that str.upper() makes one letter longer, which
\* scores all letters but the first two, and a text of the target's length
\* that str.upper() makes one letter too long
RecallTexts(target, wide) ==
    IF ~wide THEN {target}
    ELSE {<<" ">> \o lower(target) \o <<" ">>,
          Tail(target),
          <<" ">> \o Tail(target),
          Append(target, "A"),
          <<"SHARP_S">> \o SubSeq(target, 3, Len(target)),
          <<"SHARP_S">> \o Tail(target)}

\* recalls of the right length with some of the first `width` letters wrong:
\* the target in lower case with "Z" at the positions of a set S
PatternTexts(target, width) ==
    {[i \in 1..Len(target) |-> IF i \in S THEN "Z" ELSE lower_char(target[i])[1]] :
         S \in SUBSET (1..Min(width, Len(target)))}

\* the texts a user sends in conversation state `state`: the three keyboard
\* buttons and /start in every state, answers while the sum is awaited, recalls
\* of a group while that group is awaited
Texts(d, state, wide) ==
    {BRAIN, STOP, STATS, StartCommand}
        \cup (IF state = WAIT_MATH THEN MathTexts(d, wide) ELSE {})
        \cup (IF state = WAIT_RECALL_EDGES
              THEN RecallTexts(d["edges"], wide) ELSE {})
        \cup (IF state = WAIT_RECALL_CORNERS
              THEN RecallTexts(d["corners"], wide) ELSE {})

\* the updates the transport can deliver in the current state
Updates(e) ==
    {Message(t) : t \in Texts(user_data, conv, e.wide)}
        \cup {CallbackQuery(LetsGo)}
        \cup (IF conv \in {WAIT_RECALL_EDGES, WAIT_RECALL_CORNERS}
              THEN {Message(t) :
                       t \in PatternTexts(IF conv = WAIT_RECALL_EDGES
                                          THEN user_data["edges"]
                                          ELSE user_data["corners"], e.width)}
              ELSE {})

WideEnv ==
    [maxLevel |-> MaxLevel, cornerDraws |-> CornerDraws, edgeDraws |-> EdgeDraws,
     mathDraws |-> MathDraws, wide |-> TRUE, width |-> 0]

\* many rounds, each played with one sum and with right answers only
DeepEnv ==
    [maxLevel |-> DeepLevel, cornerDraws |-> CornerDraws, edgeDraws |-> EdgeDraws,
     mathDraws |-> {1234}, wide |-> FALSE, width |-> 0]

\* one round, right answers only, played from two chats
ChatsEnv ==
    [maxLevel |-> ChatsLevel, cornerDraws |-> CornerDraws,
     edgeDraws |-> EdgeDraws, mathDraws |-> {1234}, wide |-> FALSE, width |-> 0]

\* one round over a transport that may fail to send
LossyEnv ==
    [maxLevel |-> LossyLevel, cornerDraws |-> CornerDraws,
     edgeDraws |-> EdgeDraws, mathDraws |-> {1234}, wide |-> TRUE, width |-> 0]

\* one round, its recalls sent with every pattern of right and wrong letters
\* among the first ScoreWidth
ScoreEnv ==
    [maxLevel |-> ScoreLevel, cornerDraws |-> CornerDraws,
     edgeDraws |-> EdgeDraws, mathDraws |-> {1234}, wide |-> TRUE,
     width |-> ScoreWidth]

\* ------------------------------------------------------------------ session
Init ==
    /\ conv = END
    /\ user_data = <<>>
    /\ out = [kind |-> "none"]
    /\ raised = "none"
    /\ scored = <<>>
    /\ sumHits = 0
    /\ sumLens = 0
    /\ gen = NoGen
    /\ parked = END

Next ==
    \/ \E u \in Updates(WideEnv) : start(u)
    \/ \E u \in Updates(WideEnv) : go_handler(u, WideEnv)
    \/ \E u \in Updates(WideEnv) : letsgo_cb(u, WideEnv)
    \/ \E u \in Updates(WideEnv) : handle_math(u)
    \/ \E u \in Updates(WideEnv) : handle_edges(u)
    \/ \E u \in Updates(WideEnv) : handle_corners(u)
    \/ \E u \in Updates(WideEnv) : exit_handler(u)
    \/ \E u \in Updates(WideEnv) : stats_handler(u)
    \/ \E u \in Updates(WideEnv) : unhandled(u)

Spec == Init /\ [][Next]_vars

NextDeep ==
    \/ \E u \in Updates(DeepEnv) : start(u)
    \/ \E u \in Updates(DeepEnv) : go_handler(u, DeepEnv)
    \/ \E u \in Updates(DeepEnv) : letsgo_cb(u, DeepEnv)
    \/ \E u \in Updates(DeepEnv) : handle_math(u)
    \/ \E u \in Updates(DeepEnv) : handle_edges(u)
    \/ \E u \in Updates(DeepEnv) : handle_corners(u)
    \/ \E u \in Updates(DeepEnv) : exit_handler(u)
    \/ \E u \in Updates(DeepEnv) : stats_handler(u)
    \/ \E u \in Updates(DeepEnv) : unhandled(u)

SpecDeep == Init /\ [][NextDeep]_vars

\* The user writes from their other chat.  memo3x3_conv keeps one state per
\* (chat, user), the default key of a ConversationHandler, while ctx.user_data
\* is the one dict of the user in every chat: the next updates meet the other
\* chat's conversation state and the same user_data.
switch_chat ==
    /\ conv' = parked
    /\ parked' = conv
    /\ UNCHANGED <<user_data, out, raised, scored, sumHits, sumLens, gen>>

NextChats ==
    \/ \E u \in Updates(ChatsEnv) : start(u)
    \/ \E u \in Updates(ChatsEnv) : go_handler(u, ChatsEnv)
    \/ \E u \in Updates(ChatsEnv) : letsgo_cb(u, ChatsEnv)
    \/ \E u \in Updates(ChatsEnv) : handle_math(u)
    \/ \E u \in Updates(ChatsEnv) : handle_edges(u)
    \/ \E u \in Updates(ChatsEnv) : handle_corners(u)
    \/ \E u \in Updates(ChatsEnv) : exit_handler(u)
    \/ \E u \in Updates(ChatsEnv) : stats_handler(u)
    \/ \E u \in Updates(ChatsEnv) : unhandled(u)
    \/ switch_chat

\* one user in two chats
SpecChats == Init /\ [][NextChats]_vars

NextLossy ==
    \/ \E u \in Updates(LossyEnv) : start(u)
    \/ \E u \in Updates(LossyEnv) : go_handler(u, LossyEnv)
    \/ \E u \in Updates(LossyEnv) : letsgo_cb(u, LossyEnv)
    \/ \E u \in Updates(LossyEnv) : handle_math(u)
    \/ \E u \in Updates(LossyEnv) : handle_edges(u)
    \/ \E u \in Updates(LossyEnv) : handle_corners(u)
    \/ \E u \in Updates(LossyEnv) : exit_handler(u)
    \/ \E u \in Updates(LossyEnv) : stats_handler(u)
    \/ \E u \in Updates(LossyEnv) : unhandled(u)
    \/ \E u \in Updates(LossyEnv) : start_undelivered(u)
    \/ \E u \in Updates(LossyEnv) : go_handler_undelivered(u, LossyEnv)
    \/ \E u \in Updates(LossyEnv) : letsgo_cb_undelivered(u, LossyEnv)
    \/ \E u \in Updates(LossyEnv) : handle_math_undelivered(u)
    \/ \E u \in Updates(LossyEnv) : handle_edges_undelivered(u)
    \/ \E u \in Updates(LossyEnv) : handle_corners_undelivered(u)
    \/ \E u \in Updates(LossyEnv) : exit_handler_undelivered(u)
    \/ \E u \in Updates(LossyEnv) : stats_handler_undelivered(u)

\* the session when sending a message may fail
SpecLossy == Init /\ [][NextLossy]_vars

NextScore ==
    \/ \E u \in Updates(ScoreEnv) : start(u)
    \/ \E u \in Updates(ScoreEnv) : go_handler(u, ScoreEnv)
    \/ \E u \in Updates(ScoreEnv) : letsgo_cb(u, ScoreEnv)
    \/ \E u \in Updates(ScoreEnv) : handle_math(u)
    \/ \E u \in Updates(ScoreEnv) : handle_edges(u)
    \/ \E u \in Updates(ScoreEnv) : handle_corners(u)
    \/ \E u \in Updates(ScoreEnv) : exit_handler(u)
    \/ \E u \in Updates(ScoreEnv) : stats_handler(u)
    \/ \E u \in Updates(ScoreEnv) : unhandled(u)

SpecScore == Init /\ [][NextScore]_vars

\* ------------------------------------------------------------------ generator
\* gen_memo_set followed pass by pass: every pass draws a letter and, for a
\* letter already in memo, a random number
Alphabets ==
    {SubSeq(CORNER_LETTERS, 1, k) : k \in 2..GenMaxLetters}
        \cup {SubSeq(EDGE_LETTERS, 1, k) : k \in 2..GenMaxLetters}
        \cup {CORNER_LETTERS, EDGE_LETTERS}

InitGen ==
    /\ conv = END
    /\ user_data = <<>>
    /\ out = [kind |-> "none"]
    /\ raised = "none"
    /\ scored = <<>>
    /\ sumHits = 0
    /\ sumLens = 0
    /\ parked = END
    /\ \E letters \in Alphabets, length \in 1..GenMaxLen :
           gen = [pc |-> "loop", letters |-> letters, length |-> length,
                  memo |-> <<>>]

gen_pass ==
    /\ gen.pc = "loop"
    /\ Len(gen.memo) < gen.length
    /\ \E L \in Range(gen.letters), r \in RandomDraws :
           gen' = IF accepts(gen.memo, L, r)
                  THEN [gen EXCEPT !.memo = Append(@, L)]
                  ELSE gen
    /\ UNCHANGED <<conv, user_data, out, raised, scored, sumHits, sumLens, parked>>

gen_return ==
    /\ gen.pc = "loop"
    /\ ~(Len(gen.memo) < gen.length)
    /\ gen' = [gen EXCEPT !.pc = "returned"]
    /\ UNCHANGED <<conv, user_data, out, raised, scored, sumHits, sumLens, parked>>

NextGen == gen_pass \/ gen_return

SpecGen == InitGen /\ [][NextGen]_vars

\* Fair random draws: a pass that some draw of (letter, number) lets append a
\* letter is not rejected for ever, since every pass draws afresh and that draw
\* has a fixed positive probability; a rejected draw leaves memo as it is.
SpecGenFair == SpecGen /\ WF_vars(gen_pass) /\ WF_vars(gen_return)

\* ------------------------------------------------------------------ claims
\* the steps of one handler under Spec
StartStep == \E u \in Updates(WideEnv) : start(u)
GoStep == \E u \in Updates(WideEnv) : go_handler(u, WideEnv)
ExitStep == \E u \in Updates(WideEnv) : exit_handler(u)
StatsStep == \E u \in Updates(WideEnv) : stats_handler(u)
\* a round completes: the corners recall is scored
CompletionStep == conv = WAIT_RECALL_CORNERS /\ conv' = END

Counters == {"correct_letters", "attempted_letters", "puzzles_solved"}
Transient == {"corners", "edges", "math_ans", "last_edge_hits"}

\* C1: the exit action is taken in every state and leaves the session in IDLE
\* (the conversation without a state), where a begin-round action starts a round
C1_ExitLeavesIdle == [][ExitStep => conv' = END]_vars

\* C2: whenever no round is active (the conversation has no state), corners,
\* edges, math_ans and last_edge_hits are absent from the session
C2_TransientAbsentInIdle ==
    conv = END => \A k \in Transient : ~Has(user_data, k)

\* C3: the start action leaves correct_letters, attempted_letters and
\* puzzles_solved as they were
C3_StartKeepsCounters ==
    [][StartStep =>
         \A k \in Counters : Has(user_data, k) => user_data'[k] = user_data[k]]_vars

\* C4: puzzles_solved grows by exactly 1 at a round completion whose groups,
\* edges and corners, were each scored with hits equal to the length; a
\* completion of any other round, and every action but start, leaves it alone
C4_SolvedIffPerfect ==
    [][LET before == Get(user_data, "puzzles_solved", 0)
           after == Get(user_data', "puzzles_solved", 0)
           perfect == /\ [i \in 1..Len(scored') |-> scored'[i].group]
                           = <<"edges", "corners">>
                      /\ \A i \in 1..Len(scored') :
                             scored'[i].hits = scored'[i].length
       IN IF CompletionStep
          THEN after = before + (IF perfect THEN 1 ELSE 0)
          ELSE StartStep \/ after = before]_vars

\* a round was completed with a full solve, and one without
C4_Witness ==
    /\ conv = END
    /\ out.kind = "final"
    /\ user_data["level"] = 3
    /\ user_data["puzzles_solved"] = 1

\* C5: the accuracy emitted at round completion is
\* floor(100 * hits / lengths) over the groups scored since the counters were
\* last reset, and attempted_letters is not 0 then
C5_Accuracy ==
    out.kind = "final" =>
        /\ sumLens # 0
        /\ user_data["attempted_letters"] # 0
        /\ out.acc = (100 * sumHits) \div sumLens

\* the second round's completion, after partial hits
C5_Witness ==
    /\ out.kind = "final"
    /\ user_data["level"] = 3
    /\ out.acc \notin {0, 100}

\* the step the application takes on update u under Spec
Deliver(u) ==
    \/ start(u)
    \/ go_handler(u, WideEnv)
    \/ letsgo_cb(u, WideEnv)
    \/ handle_math(u)
    \/ handle_edges(u)
    \/ handle_corners(u)
    \/ exit_handler(u)
    \/ stats_handler(u)
    \/ unhandled(u)

\* the conversation state and every game field of the session stay as they are
SameSession == conv' = conv /\ Game(user_data') = Game(user_data)

\* the sequence awaited in a recall state
Awaited ==
    IF conv = WAIT_RECALL_EDGES THEN user_data["edges"] ELSE user_data["corners"]

MalformedMath(u) ==
    conv = WAIT_MATH /\ u.kind = "message" /\ ~IsIntLiteral(u.text)

TrimmedLengthDiffers(u) ==
    /\ conv \in {WAIT_RECALL_EDGES, WAIT_RECALL_CORNERS}
    /\ u.kind = "message"
    /\ Len(strip(u.text)) # Len(Awaited)

NormalisedLengthDiffers(u) ==
    /\ conv \in {WAIT_RECALL_EDGES, WAIT_RECALL_CORNERS}
    /\ u.kind = "message"
    /\ Len(upper(strip(u.text))) # Len(Awaited)

\* C6 as stated: a text that is no integer while the sum is awaited, or a
\* recall whose trimmed length differs from the length of the awaited sequence,
\* changes neither the conversation state nor a game field
C6_MalformedTrimmed ==
    [][\/ SameSession
       \/ \A u \in Updates(WideEnv) :
              ~((MalformedMath(u) \/ TrimmedLengthDiffers(u)) /\ Deliver(u))]_vars

\* C6 as amended: a text that is no integer while the sum is awaited, or a
\* recall whose length after trimming and upper-casing differs from the length
\* of the awaited sequence, changes neither the conversation state nor a game
\* field
C6_MalformedNormalised ==
    [][\/ SameSession
       \/ \A u \in Updates(WideEnv) :
              ~((MalformedMath(u) \/ NormalisedLengthDiffers(u)) /\ Deliver(u))]_vars

\* a recall of the wrong length was answered while the corners were awaited,
\* after the edges had scored hits
C6_Witness ==
    /\ conv = WAIT_RECALL_CORNERS
    /\ out.kind = "reply"
    /\ user_data["correct_letters"] > 0

\* C7: the exit action, in any state, leaves correct_letters,
\* attempted_letters and puzzles_solved unchanged
C7_ExitKeepsCounters ==
    [][ExitStep =>
         \A k \in Counters :
             /\ Has(user_data', k) = Has(user_data, k)
             /\ Has(user_data, k) => user_data'[k] = user_data[k]]_vars

\* exit was taken mid-round, between the two recalls, with hits counted
C7_Witness ==
    /\ conv = WAIT_RECALL_CORNERS
    /\ out.kind = "goodbye"
    /\ user_data["correct_letters"] > 0

\* C8: the stats action is taken in every state, reports puzzles_solved (0
\* when the session has none) and changes neither the conversation state nor
\* a game field
C8_StatsReadOnly ==
    /\ [](handler_for(Message(STATS), conv) = "stats_handler")
    /\ [][StatsStep =>
            /\ SameSession
            /\ out'.kind = "stats"
            /\ out'.solved = (IF Has(user_data, "puzzles_solved")
                              THEN user_data["puzzles_solved"] ELSE 0)]_vars

\* stats were shown mid-round with a solve on the record
C8_Witness ==
    /\ conv = WAIT_RECALL_EDGES
    /\ out.kind = "stats"
    /\ out.solved = 1

\* C9: at every round completion each group's length becomes current + 1 when
\* it is below the group's maximum and a value in [min, max] when it is at the
\* maximum; the corner length stays in [3, 8], the edge length in [5, 12]
C9_Progression ==
    /\ [](Has(user_data, "corner_len") =>
             /\ user_data["corner_len"] \in 3..8
             /\ user_data["edge_len"] \in 5..12)
    /\ [][CompletionStep =>
            /\ user_data["corner_len"] < 8 =>
                   user_data'["corner_len"] = user_data["corner_len"] + 1
            /\ user_data["corner_len"] = 8 => user_data'["corner_len"] \in 3..8
            /\ user_data["edge_len"] < 12 =>
                   user_data'["edge_len"] = user_data["edge_len"] + 1
            /\ user_data["edge_len"] = 12 => user_data'["edge_len"] \in 5..12]_vars

\* the round played with 12 edges is complete and the edge length fell back
C9_Witness ==
    /\ conv = END
    /\ Has(user_data, "edges")
    /\ Len(user_data["edges"]) = 12
    /\ user_data["edge_len"] = 5
    /\ user_data["corner_len"] = 8

\* C10: every letter the generator accepts differs from the first accepted
\* letter and from the letter accepted just before it; a returned sequence of
\* two letters or more ends in a letter other than its first
C10_WrapGuard ==
    gen.pc # "idle" =>
        /\ \A i \in 2..Len(gen.memo) :
               gen.memo[i] # gen.memo[1] /\ gen.memo[i] # gen.memo[i - 1]
        /\ gen.pc = "returned" /\ Len(gen.memo) >= 2 =>
               gen.memo[Len(gen.memo)] # gen.memo[1]

\* a sequence of four letters was returned with a letter in it twice
C10_Witness ==
    /\ gen.pc = "returned"
    /\ Len(gen.memo) = 4
    /\ gen.memo[2] = gen.memo[4]

\* the generator has returned a list of `length` letters of its alphabet
Returned ==
    /\ gen.pc = "returned"
    /\ Len(gen.memo) = gen.length
    /\ Range(gen.memo) \subseteq Range(gen.letters)

\* C11 as stated: for every alphabet of at least 2 letters and every length
\* >= 1, the generator eventually returns `length` letters of the alphabet
C11_ReturnsFromTwoLetters ==
    (gen.pc = "loop" /\ Len(gen.letters) >= 2 /\ gen.length >= 1) ~> Returned

\* C11 as amended: for every alphabet of at least 3 letters and every length
\* >= 1, the generator eventually returns `length` letters of the alphabet
C11_ReturnsFromThreeLetters ==
    (gen.pc = "loop" /\ Len(gen.letters) >= 3 /\ gen.length >= 1) ~> Returned

\* the generator returned a list longer than its alphabet of three letters
C11_Witness ==
    /\ Returned
    /\ Len(gen.letters) = 3
    /\ Len(gen.memo) = 4

\* the indices at which two lists agree
Agreeing(correct, guess) ==
    {i \in 1..Len(correct) : i <= Len(guess) /\ guess[i] = correct[i]}

\* C12: every call of the scorer by a recall handler has a guess as long as
\* its target, and the hits it returns, the same hits the feedback shows, are
\* the number of indices at which guess and target agree, within 0..length
C12_HitsCountAgreement ==
    /\ \A i \in 1..Len(scored) :
           /\ Len(scored[i].guess) = Len(scored[i].correct)
           /\ scored[i].hits = Cardinality(Agreeing(scored[i].correct,
                                                    scored[i].guess))
           /\ scored[i].hits \in 0..Len(scored[i].correct)
    /\ out.kind \in {"feedback", "final"} =>
           out.fb.score = <<scored[Len(scored)].hits,
                            Len(scored[Len(scored)].correct)>>

\* the edges were scored with the second letter wrong and the others right
C12_Witness ==
    /\ conv = WAIT_RECALL_CORNERS
    /\ out.kind = "feedback"
    /\ scored[1].guess[2] = "Z"
    /\ scored[1].hits = Len(scored[1].correct) - 1

\* C13: a begin-round action taken while the conversation has no state starts
\* a round: corners and edges of the current lengths are generated and stored
\* and the conversation moves to SHOW_MEMO, also in a session that never
\* handled a start action
C13_BeginRoundStartsRound ==
    [][GoStep =>
         /\ conv' = SHOW_MEMO
         /\ Has(user_data', "corners") /\ Has(user_data', "edges")
         /\ Len(user_data'["corners"]) = user_data'["corner_len"]
         /\ Len(user_data'["edges"]) = user_data'["edge_len"]]_vars

\* the fields of the session that a failed delivery must leave consistent
Accounted ==
    {"correct_letters", "attempted_letters", "puzzles_solved", "last_edge_hits",
     "level", "corner_len", "edge_len"}

AccountedOf(d) == [k \in DOMAIN d \cap Accounted |-> d[k]]

\* the start fields are set and the conversation has no state: the session
\* after a start action that was handled to its end
AsAfterStart ==
    /\ conv = END /\ conv' = END
    /\ AccountedOf(user_data') =
           AccountedOf(Update(user_data,
               [level |-> 1, corner_len |-> 3, edge_len |-> 5,
                correct_letters |-> 0, attempted_letters |-> 0,
                puzzles_solved |-> 0]))

\* C14: a handler whose message is not sent leaves the conversation state,
\* the counters, the hits of the groups, the level and the lengths either all
\* as they were or all as the handled action leaves them (the conversation
\* keeps its state, so the latter is the start action's case alone); a recall
\* sent again is then not counted twice
C14_FailedDeliveryAtomic ==
    [][raised' = "NetworkError" =>
         \/ conv' = conv /\ AccountedOf(user_data') = AccountedOf(user_data)
         \/ AsAfterStart]_vars

\* C15: an update handled in one chat leaves the session of the user's other
\* chat as it is: the state of its conversation and every game field it
\* plays with (sequences, sum, hits, counters, level, lengths)
C15_SessionsIsolated ==
    [][(\E u \in Updates(ChatsEnv) : Deliver(u)) =>
           /\ parked' = parked
           /\ parked # END => Game(user_data') = Game(user_data)]_vars

\* a text the recall handler of the awaited group takes
RecallText(u) ==
    handler_for(u, conv) \in {"handle_edges", "handle_corners"}

\* the awaited sequence is scored against the guess of u: the counters grow
\* by the hits and by the length, the hits are kept, and the next group is
\* awaited or, after the last group, the round is completed
ScoredStep(u) ==
    LET hits == Cardinality(Agreeing(Awaited, upper(strip(u.text))))
    IN /\ user_data'["correct_letters"] = user_data["correct_letters"] + hits
       /\ user_data'["attempted_letters"] =
              user_data["attempted_letters"] + Len(Awaited)
       /\ user_data'["edges"] = user_data["edges"]
       /\ user_data'["corners"] = user_data["corners"]
       /\ conv = WAIT_RECALL_EDGES =>
              /\ user_data'["last_edge_hits"] = hits
              /\ conv' = WAIT_RECALL_CORNERS
              /\ out'.kind = "feedback"
              /\ out'.fb.score = <<hits, Len(Awaited)>>
       /\ conv = WAIT_RECALL_CORNERS =>
              /\ conv' = END
              /\ out'.kind = "final"
              /\ out'.fb.score = <<hits, Len(Awaited)>>
              /\ user_data'["level"] = user_data["level"] + 1

C17_LevelCountsRounds ==
    /\ [](Has(user_data, "level") => user_data["level"] >= 1)
    /\ [][IF CompletionStep
          THEN user_data'["level"] = user_data["level"] + 1 /\ conv' = END
          ELSE IF StartStep THEN user_data'["level"] = 1
          ELSE /\ Has(user_data', "level") = Has(user_data, "level")
               /\ Has(user_data, "level") =>
                      user_data'["level"] = user_data["level"]]_vars

\* the second round since the start action is complete
C17_Witness ==
    /\ conv = END
    /\ out.kind = "final"
    /\ user_data["level"] = 3
    /\ raised = "none"
    /\ scored[2].hits = scored[2].length

LetsGoStep == \E u \in Updates(WideEnv) : letsgo_cb(u, WideEnv)

RECURSIVE DropZeros(_)
DropZeros(b) ==
    IF Len(b) > 1 /\ Head(b) = "0" THEN DropZeros(Tail(b)) ELSE b

\* the digits a user typed in an integer text, without sign, underscores and
\* leading zeros
TypedDigits(text) ==
    DropZeros(SelectSeq(IntBody(text), LAMBDA c : c # "_"))

\* the integer text is the decimal numeral of n >= 0
Denotes(text, n) ==
    /\ strip(text)[1] # "-" \/ n = 0
    /\ TypedDigits(text) = Decimal(n)

\* C18: while the sum is awaited, a text that parses as an integer moves the
\* conversation to the edges recall, right or wrong; the verdict is "correct"
\* exactly when the integer is math_ans; math_ans is the sum of the two
\* integers of 1000..9999 shown at the latest confirmation; the counters stay
C18_MathAnswer ==
    /\ [][\A u \in Updates(WideEnv) :
              conv = WAIT_MATH /\ u.kind = "message" /\ IsIntLiteral(u.text)
                      /\ Deliver(u)
                  => /\ conv' = WAIT_RECALL_EDGES
                     /\ out'.kind = "verdict"
                     /\ out'.ok <=> Denotes(u.text, user_data["math_ans"])
                     /\ \A k \in Counters : user_data'[k] = user_data[k]]_vars
    /\ [][IF LetsGoStep
          THEN /\ out'.kind = "math"
               /\ out'.a \in 1000..9999 /\ out'.b \in 1000..9999
               /\ user_data'["math_ans"] = out'.a + out'.b
               /\ conv' = WAIT_MATH
          ELSE /\ Has(user_data', "math_ans") = Has(user_data, "math_ans")
               /\ Has(user_data, "math_ans") =>
                      user_data'["math_ans"] = user_data["math_ans"]]_vars

\* a wrong sum was answered in the second round and the edges are awaited
C18_Witness ==
    /\ conv = WAIT_RECALL_EDGES
    /\ out.kind = "verdict"
    /\ ~out.ok
    /\ out.was = 19998
    /\ user_data["level"] = 2

\* the groups scored since the memo was last shown, in the order of scoring
ScoredGroups == [i \in 1..Len(scored) |-> scored[i].group]

\* C19: the conversation advances only along memo shown -> confirmation ->
\* integer answer -> edges scored -> corners scored, each advance made by the
\* handler of that phase (in SHOW_MEMO by the confirmation alone, not by a
\* text); so the edges are scored before the corners, nothing is scored before
\* the sum was answered, and a completed round scored each group exactly once
C19_PhaseOrder ==
    /\ [](/\ conv \in {SHOW_MEMO, WAIT_MATH, WAIT_RECALL_EDGES}
              => ScoredGroups = <<>>
          /\ conv = WAIT_RECALL_CORNERS => ScoredGroups = <<"edges">>
          /\ conv = END => ScoredGroups \in {<<>>, <<"edges", "corners">>})
    /\ [][conv' # conv =>
             \/ conv = END /\ conv' = SHOW_MEMO /\ GoStep
             \/ conv = SHOW_MEMO /\ conv' = WAIT_MATH /\ LetsGoStep
             \/ /\ conv = WAIT_MATH /\ conv' = WAIT_RECALL_EDGES
                /\ \E u \in Updates(WideEnv) :
                       IsIntLiteral(u.text) /\ handle_math(u)
             \/ /\ conv = WAIT_RECALL_EDGES /\ conv' = WAIT_RECALL_CORNERS
                /\ ScoredGroups' = <<"edges">>
             \/ /\ conv = WAIT_RECALL_CORNERS /\ conv' = END
                /\ ScoredGroups' = <<"edges", "corners">>]_vars
    /\ [][scored' # scored /\ scored' # <<>> => conv' # conv]_vars

\* the first round was played to its end: both groups scored once, the edges
\* first, neither perfectly
C19_Witness ==
    /\ conv = END
    /\ out.kind = "final"
    /\ ScoredGroups = <<"edges", "corners">>
    /\ scored[1].hits < scored[1].length
    /\ scored[2].hits < scored[2].length
    /\ user_data["level"] = 2

Round == {"corners", "edges", "corner_len", "edge_len"}

\* C20: while a round is on, the sequences stored are the ones the memo
\* showed and each has its group's length; no step of a round changes a
\* sequence, and none but the completion changes a length; so every recall is
\* scored against the sequence shown at the start of its round
C20_RoundFixed ==
    /\ [](conv # END =>
             /\ Len(user_data["corners"]) = user_data["corner_len"]
             /\ Len(user_data["edges"]) = user_data["edge_len"])
    /\ [](\A i \in 1..Len(scored) :
             scored[i].correct = user_data[scored[i].group])
    /\ [][GoStep /\ conv' = SHOW_MEMO =>
             /\ out'.kind = "memo"
             /\ out'.corners = user_data'["corners"]
             /\ out'.edges = user_data'["edges"]]_vars
    /\ [][conv # END =>
             \A k \in Round :
                 \/ user_data'[k] = user_data[k]
                 \/ CompletionStep /\ k \in {"corner_len", "edge_len"}]_vars

\* a text of the wrong length, such as the begin-round button, was answered
\* with the re-prompt while the corners of the second round were awaited
C20_Witness ==
    /\ conv = WAIT_RECALL_CORNERS
    /\ out.kind = "reply"
    /\ out.group = "corners"
    /\ Len(user_data["corners"]) = 4
    /\ user_data["puzzles_solved"] = 1

====
